---- MODULE Spec2Model ----
(***************************************************************************)
(* git-contains (src/src/main.rs): which tracked branches contain which    *)
(* logical change.  The run of main() is a pipeline of loops; one action   *)
(* per loop iteration.  Strings are sequences of one-character strings, a  *)
(* commit message is a sequence of lines.                                  *)
(***************************************************************************)
EXTENDS Integers, Sequences, FiniteSets, TLC

VARIABLES
    args,               \* Args: branches, reverse, variants, search, author (resolved)
    refs,               \* repo.references(): sequence of [name, oid]
    commits,            \* the repository's commits: oid -> [parents, time, author, message]
    refscript,          \* config contains.refscript is set
    script,             \* outcome of the trigger program, per selector index
    build,              \* "debug" (overflow checks on) or "release" (wrapping)
    pc,                 \* position in main()
    k,                  \* cursor of the current loop
    branch_infos,       \* Vec<(idx, BranchInfo)>
    found_branches,     \* BTreeMap<String, (idx, show_if_empty)>
    branches,           \* Vec<(name, oid)> of tracked branches
    mapoid_to_branches, \* BTreeMap<Oid, HashSet<name>>
    msg_map,            \* BTreeMap<String, (Time, Vec<oid>)>
    v,                  \* Vec<(when, msg, id_revs)>
    sorted_branches,    \* the second `branches`: the column list
    colors,             \* the palette
    out,                \* lines written to standard output
    diff_calls          \* oids the `git show | sha1sum` command was run for

vars == <<args, refs, commits, refscript, script, build, pc, k, branch_infos,
          found_branches, branches, mapoid_to_branches, msg_map, v,
          sorted_branches, colors, out, diff_calls>>

inputs == <<args, refs, commits, refscript, script, build>>

----------------------------------------------------------------------------
(* Bounds of the model *)

NCommits == 3
MaxSel == 2

Oids == 1..NCommits

----------------------------------------------------------------------------
(* Strings *)

\* byte values of the characters used, for Rust's bytewise str ordering
Code(c) ==
    CASE c = "!" -> 33 [] c = "*" -> 42 [] c = "/" -> 47 [] c = ":" -> 58
      [] c = "@" -> 64 [] c = "J" -> 74 [] c = "[" -> 91 [] c = "a" -> 97
      [] c = "b" -> 98 [] c = "c" -> 99 [] c = "f" -> 102 [] c = "t" -> 116
      [] c = "x" -> 120 [] c = "y" -> 121 [] OTHER -> 255

RECURSIVE StrLess(_, _)
StrLess(s, t) ==
    IF t = <<>> THEN FALSE
    ELSE IF s = <<>> THEN TRUE
    ELSE IF Head(s) # Head(t) THEN Code(Head(s)) < Code(Head(t))
    ELSE StrLess(Tail(s), Tail(t))

\* str::contains
Contains(s, p) == \E i \in 0..(Len(s) - Len(p)) : SubSeq(s, i + 1, i + Len(p)) = p

HasChar(s, c) == \E i \in 1..Len(s) : s[i] = c

Range(s) == {s[i] : i \in 1..Len(s)}

RECURSIVE ReverseSeq(_)
ReverseSeq(s) == IF s = <<>> THEN <<>> ELSE Append(ReverseSeq(Tail(s)), Head(s))

None == [some |-> FALSE]
Some(x) == [some |-> TRUE, val |-> x]

----------------------------------------------------------------------------
(* Selectors *)

\* globset::Glob::new: an unclosed character class is a pattern error
GlobCompiles(g) == ~HasChar(g, "[")

\* GlobMatcher::is_match: `*` matches any run of characters, the rest is literal
RECURSIVE GlobMatch(_, _)
GlobMatch(p, s) ==
    IF p = <<>> THEN s = <<>>
    ELSE IF Head(p) = "*"
         THEN GlobMatch(Tail(p), s) \/ (s # <<>> /\ GlobMatch(p, Tail(s)))
         ELSE s # <<>> /\ Head(s) = Head(p) /\ GlobMatch(Tail(p), Tail(s))

StartsWithBang(sel) == sel # <<>> /\ Head(sel) = "!"

StripBang(sel) == IF StartsWithBang(sel) THEN Tail(sel) ELSE sel

\* the BranchInfo built for one selector string
ParseSelector(sel) ==
    LET glob == StripBang(sel) IN
    [show_if_empty |-> StartsWithBang(sel),
     kind          |-> IF HasChar(glob, ":") THEN "RefScript" ELSE "Glob",
     pat           |-> glob]

\* RE_BRANCH = ^refs/remotes/origin/(.+)$ ; the prefix is one token of a ref name
Origin == "refs/remotes/origin/"
Heads == "refs/heads/"
ReBranchCaptures(refname) == Len(refname) >= 2 /\ Head(refname) = Origin
ShortName(refname) == Tail(refname)

\* the inner loop over branch_infos: index of the first Glob selector matching st
MatchingIdx(infos, st) ==
    {i \in 1..Len(infos) : infos[i].item.kind = "Glob" /\ GlobMatch(infos[i].item.pat, st)}

\* the inner loop without its `break`: the last matching selector wins
FirstMatchLast(infos, st) ==
    LET m == MatchingIdx(infos, st) IN
    IF m = {} THEN None
    ELSE Some(CHOOSE i \in m : \A j \in m : i >= j)

FirstMatch(infos, st) ==
    LET m == MatchingIdx(infos, st) IN
    IF m = {} THEN None
    ELSE Some(CHOOSE i \in m : \A j \in m : i <= j)

----------------------------------------------------------------------------
(* The repository and the clock *)

DaySecs == 86400

\* SystemTime::now(), fixed for the run
Now == 3 * DaySecs

\* the age window taken one day too long
MaxAgeOffByOne(a) == DaySecs * (a.days + 1)

\* Duration::from_secs(86400 * args.days), for ref_max_age and commit_max_age alike
MaxAge(a) == DaySecs * a.days

\* SystemTime::elapsed() is Err for a time later than now; .unwrap() then panics
ElapsedErr(t) == t > Now
Elapsed(t) == Now - t

\* `time.elapsed().unwrap() > ref_max_age` at the head of a tracked branch
HeadTooOld(a, t) == Elapsed(t) > MaxAge(a)

\* `time.elapsed().unwrap() > commit_max_age`, the hide callback and the grouper's check
CommitTooOld(a, t) == Elapsed(t) > MaxAge(a)

\* repo.revparse of a trigger's second line: 0 stands for an unresolvable expression
RevparseOk(rev) == rev \in Oids

Put(f, key, val) == [x \in DOMAIN f \cup {key} |-> IF x = key THEN val ELSE f[x]]

\* revwalk with the hide callback: commits reachable from the head through
\* commits the callback does not hide
RECURSIVE WalkFrom(_, _, _, _)
WalkFrom(cs, a, frontier, seen) ==
    LET shown == {c \in frontier : ~CommitTooOld(a, cs[c].time)}
        next  == (UNION {cs[c].parents : c \in shown}) \ (seen \cup frontier)
    IN  IF frontier = {} THEN {}
        ELSE shown \cup WalkFrom(cs, a, next, seen \cup frontier)

Revwalk(cs, a, oid) == WalkFrom(cs, a, {oid}, {})

\* the commits the hide callback is called on: the head and the parents of every
\* commit the walk yields
CallbackSeen(cs, a, oid) ==
    {oid} \cup UNION {cs[c].parents : c \in Revwalk(cs, a, oid)}

\* the membership loop's body for one tracked branch that is walked
AddMembership(m, walked, name) ==
    [c \in DOMAIN m \cup walked |->
        IF c \in walked
        THEN (IF c \in DOMAIN m THEN m[c] ELSE {}) \cup {name}
        ELSE m[c]]

\* sig_matches
SigMatches(sig, arg) ==
    IF arg.some THEN Contains(sig.name, arg.val) \/ Contains(sig.email, arg.val)
    ELSE TRUE

\* ascending iteration of a BTreeMap keyed by Oid
RECURSIVE SortedOids(_)
SortedOids(S) ==
    IF S = {} THEN <<>>
    ELSE LET lo == CHOOSE x \in S : \A y \in S : x <= y
         IN  <<lo>> \o SortedOids(S \ {lo})

\* ascending iteration of a BTreeMap keyed by String
RECURSIVE SortedStrs(_)
SortedStrs(S) ==
    IF S = {} THEN <<>>
    ELSE LET lo == CHOOSE x \in S : \A y \in S \ {x} : StrLess(x, y)
         IN  <<lo>> \o SortedStrs(S \ {lo})

----------------------------------------------------------------------------
(* Init: the state at the top of main(), over families of inputs *)

SelA   == <<"a", "*">>
SelNB  == <<"!", "b">>
SelAll == <<"*">>
SelT   == <<"t", ":", "a">>
SelNT  == <<"!", "t", ":", "b">>
SelBad == <<"[">>

NameA  == <<"a">>
NameAB == <<"a", "b">>
NameB  == <<"b">>
NameC  == <<"c">>

Jane == [name |-> <<"J", "a">>, email |-> <<"j", "@", "x">>]
Bob  == [name |-> <<"b">>, email |-> <<"b", "@", "x">>]

Line1 == <<"f", "x">>
Line2 == <<"f", "y">>

NoParents == {}

\* a trigger program's outcome: spawn failed, or exit status and standard output
OutOk(name, rev, status) ==
    [spawn |-> TRUE, status |-> status, utf8 |-> TRUE, nlines |-> 2, name |-> name, rev |-> rev]
OutSpawnFail == [spawn |-> FALSE, status |-> 0, utf8 |-> TRUE, nlines |-> 0, name |-> <<>>, rev |-> 0]
OutNonUtf8   == [spawn |-> TRUE, status |-> 0, utf8 |-> FALSE, nlines |-> 2, name |-> NameA, rev |-> 1]
OutOneLine   == [spawn |-> TRUE, status |-> 0, utf8 |-> TRUE, nlines |-> 1, name |-> NameA, rev |-> 0]
OutBadRev    == [spawn |-> TRUE, status |-> 0, utf8 |-> TRUE, nlines |-> 2, name |-> NameA, rev |-> 0]

InitState ==
    /\ pc = "parse"
    /\ k = 1
    /\ branch_infos = <<>>
    /\ found_branches = <<>>
    /\ branches = <<>>
    /\ mapoid_to_branches = <<>>
    /\ msg_map = <<>>
    /\ v = <<>>
    /\ sorted_branches = <<>>
    /\ colors = <<>>
    /\ out = <<>>
    /\ diff_calls = <<>>

SelPool == {SelA, SelNB, SelAll, SelT, SelNT, SelBad}

OutPool == {OutSpawnFail, OutNonUtf8, OutOneLine, OutBadRev,
            OutOk(NameA, 1, 0), OutOk(NameB, 1, 1), OutOk(NameC, NCommits, 0)}

SeqsUpTo(S, n) == UNION {[1..len -> S] : len \in 0..n}

TimePool == {1 * DaySecs, 2 * DaySecs, 3 * DaySecs}
FutureTime == 4 * DaySecs

MsgPool == {<<>>, <<Line1, Line2>>, <<Line2>>}

\* a repository whose history is one chain 1 -> 2 -> .. -> NCommits
ChainParents(c) == IF c < NCommits THEN {c + 1} ELSE {}

DefaultMsg(c) == IF c % 2 = 1 THEN <<Line1>> ELSE <<Line2, Line1>>

DefaultCommits ==
    [c \in Oids |-> [parents |-> ChainParents(c), time |-> Now, author |-> Jane,
                     message |-> DefaultMsg(c)]]

\* refs/heads/a is local; origin/a, origin/ab and origin/b are remote-tracking
DefaultRefs ==
    << [name |-> <<Heads, "a">>,       oid |-> 1],
       [name |-> <<Origin, "a">>,      oid |-> 1],
       [name |-> <<Origin, "a", "b">>, oid |-> 2],
       [name |-> <<Origin, "b">>,      oid |-> NCommits] >>

DefaultArgs ==
    [branches |-> <<SelA, SelNB, SelT>>, days |-> 1, reverse |-> FALSE,
     variants |-> FALSE, search |-> None, author |-> Some(<<"J">>)]

DefaultScript == [i \in 1..(MaxSel + 1) |-> OutOk(NameA, NCommits, 0)]

\* selector lists vary
InitSelectors ==
    /\ \E sels \in SeqsUpTo(SelPool, MaxSel) : args = [DefaultArgs EXCEPT !.branches = sels]
    /\ refs = DefaultRefs
    /\ commits = DefaultCommits
    /\ refscript \in BOOLEAN
    /\ \E o \in {OutOk(NameA, NCommits, 0), OutOk(NameC, 1, 1)} :
           script = [i \in 1..(MaxSel + 1) |-> o]
    /\ build = "release"

\* trigger outcomes vary
InitTriggers ==
    /\ \E sels \in {<<SelT, SelNT>>, <<SelNT, SelA>>, <<SelAll, SelT>>} :
           args = [DefaultArgs EXCEPT !.branches = sels]
    /\ refs = DefaultRefs
    /\ commits = DefaultCommits
    /\ refscript = TRUE
    /\ \E o \in [1..MaxSel -> OutPool] :
           script = [i \in 1..(MaxSel + 1) |-> IF i <= MaxSel THEN o[i] ELSE OutOneLine]
    /\ build = "release"

\* the commit graph and the commit times vary
InitGraph ==
    /\ args = DefaultArgs
    /\ refs = DefaultRefs
    /\ \E ps \in [Oids -> SUBSET Oids], ts \in [Oids -> TimePool] :
          /\ \A c \in Oids : \A d \in ps[c] : d > c
          /\ commits = [c \in Oids |-> [parents |-> ps[c], time |-> ts[c],
                                        author |-> Jane, message |-> DefaultMsg(c)]]
    /\ refscript = TRUE
    /\ script = DefaultScript
    /\ build = "release"

\* commit times, messages and the display order vary
InitTimes ==
    /\ \E rev \in BOOLEAN : args = [DefaultArgs EXCEPT !.reverse = rev]
    /\ refs = DefaultRefs
    /\ \E ts \in [Oids -> TimePool \cup {FutureTime}], ms \in [Oids -> {<<Line1, Line2>>, <<Line2>>}] :
          commits = [c \in Oids |-> [parents |-> ChainParents(c), time |-> ts[c],
                                     author |-> Jane, message |-> ms[c]]]
    /\ refscript = TRUE
    /\ script = DefaultScript
    /\ build = "release"

\* the flags, the author filter, the messages, the authors and the build vary
InitFlags ==
    /\ \E rev \in BOOLEAN, var \in BOOLEAN, srch \in {None, Some(<<"x">>)},
          auth \in {None, Some(<<"J">>), Some(<<"@">>)} :
          args = [DefaultArgs EXCEPT !.reverse = rev, !.variants = var,
                                     !.search = srch, !.author = auth]
    /\ refs = DefaultRefs
    /\ \E ms \in [Oids -> MsgPool], bob \in Oids \cup {0} :
          commits = [c \in Oids |-> [parents |-> NoParents,
                                     time |-> (1 + (c % 2)) * DaySecs + DaySecs,
                                     author |-> IF c = bob THEN Bob ELSE Jane,
                                     message |-> ms[c]]]
    /\ refscript = TRUE
    /\ script = DefaultScript
    /\ build \in {"debug", "release"}

Init ==
    /\ InitState
    /\ \/ InitSelectors
       \/ InitTriggers
       \/ InitGraph
       \/ InitTimes
       \/ InitFlags

----------------------------------------------------------------------------
(* Branch Resolver: lines 279-374 *)

Abort(why) ==
    /\ pc' = why
    /\ UNCHANGED <<k, branch_infos, found_branches, branches, mapoid_to_branches,
                   msg_map, v, sorted_branches, colors, out, diff_calls>>

\* one iteration of `for (idx, glob) in args.branches.iter().enumerate()`
ParseStep ==
    /\ pc = "parse"
    /\ k <= Len(args.branches)
    /\ LET item == ParseSelector(args.branches[k]) IN
       IF item.kind = "Glob" /\ ~GlobCompiles(item.pat)
       THEN Abort("err_glob")
       ELSE /\ branch_infos' = Append(branch_infos, [idx |-> k - 1, item |-> item])
            /\ k' = k + 1
            /\ UNCHANGED <<pc, found_branches, branches, mapoid_to_branches, msg_map,
                           v, sorted_branches, colors, out, diff_calls>>
    /\ UNCHANGED inputs

ParseDone ==
    /\ pc = "parse"
    /\ k > Len(args.branches)
    /\ pc' = "refs"
    /\ k' = 1
    /\ UNCHANGED <<branch_infos, found_branches, branches, mapoid_to_branches, msg_map,
                   v, sorted_branches, colors, out, diff_calls>>
    /\ UNCHANGED inputs

\* what the reference loop records for a short name: the matched selector's
\* (idx, show_if_empty), or None when no glob selector matches
Resolve(infos, st) ==
    LET m == FirstMatch(infos, st) IN
    IF m.some
    THEN Some([idx |-> infos[m.val].idx, show_if_empty |-> infos[m.val].item.show_if_empty])
    ELSE None

\* one iteration of `for refe in repo.references()?`
RefStep ==
    /\ pc = "refs"
    /\ k <= Len(refs)
    /\ LET refname == refs[k].name
           st      == ShortName(refname)
           matched == Resolve(branch_infos, st)
       IN  IF ReBranchCaptures(refname) /\ matched.some
           THEN /\ found_branches' = Put(found_branches, st, matched.val)
                /\ branches' = Append(branches, [name |-> st, oid |-> refs[k].oid])
           ELSE UNCHANGED <<found_branches, branches>>
    /\ k' = k + 1
    /\ UNCHANGED <<pc, branch_infos, mapoid_to_branches, msg_map, v, sorted_branches,
                   colors, out, diff_calls>>
    /\ UNCHANGED inputs

RefDone ==
    /\ pc = "refs"
    /\ k > Len(refs)
    /\ pc' = "scripts"
    /\ k' = 1
    /\ UNCHANGED <<branch_infos, found_branches, branches, mapoid_to_branches, msg_map,
                   v, sorted_branches, colors, out, diff_calls>>
    /\ UNCHANGED inputs

\* what one trigger invocation does: "err_io" (spawn failed), "err_utf8",
\* "err_git" (revparse failed), "skip" (fewer than two lines) or "push"
TriggerResult(o) ==
    IF ~o.spawn THEN "err_io"
    ELSE IF ~o.utf8 THEN "err_utf8"
    ELSE IF o.nlines >= 2
         THEN (IF RevparseOk(o.rev) THEN "push" ELSE "err_git")
         ELSE "skip"

\* one iteration of the loop over branch_infos under `if let Some(refscript) = refscript`
ScriptStep ==
    /\ pc = "scripts"
    /\ refscript
    /\ k <= Len(branch_infos)
    /\ LET info == branch_infos[k]
           o    == script[k]
           res  == IF info.item.kind = "RefScript" THEN TriggerResult(o) ELSE "glob"
       IN  IF res \in {"err_io", "err_utf8", "err_git"}
           THEN Abort(res)
           ELSE /\ IF res = "push"
                   THEN /\ found_branches' =
                              Put(found_branches, o.name,
                                  [idx |-> info.idx, show_if_empty |-> info.item.show_if_empty])
                        /\ branches' = Append(branches, [name |-> o.name, oid |-> o.rev])
                   ELSE UNCHANGED <<found_branches, branches>>
                /\ k' = k + 1
                /\ UNCHANGED <<pc, branch_infos, mapoid_to_branches, msg_map, v,
                               sorted_branches, colors, out, diff_calls>>
    /\ UNCHANGED inputs

ScriptDone ==
    /\ pc = "scripts"
    /\ ~refscript \/ k > Len(branch_infos)
    /\ pc' = "walk"
    /\ k' = 1
    /\ UNCHANGED <<branch_infos, found_branches, branches, mapoid_to_branches, msg_map,
                   v, sorted_branches, colors, out, diff_calls>>
    /\ UNCHANGED inputs

----------------------------------------------------------------------------
(* Membership Builder: lines 376-411 *)

\* one iteration of `for (name, oid) in branches`
WalkStep ==
    /\ pc = "walk"
    /\ k <= Len(branches)
    /\ LET name == branches[k].name
           oid  == branches[k].oid
       IN  IF ElapsedErr(commits[oid].time)
           THEN Abort("panic_elapsed")
           ELSE IF HeadTooOld(args, commits[oid].time)
           THEN /\ k' = k + 1
                /\ UNCHANGED <<pc, mapoid_to_branches>>
           ELSE IF \E c \in CallbackSeen(commits, args, oid) : ElapsedErr(commits[c].time)
           THEN /\ pc' = "panic_elapsed"
                /\ UNCHANGED <<k, mapoid_to_branches>>
           ELSE /\ mapoid_to_branches' =
                      AddMembership(mapoid_to_branches, Revwalk(commits, args, oid), name)
                /\ k' = k + 1
                /\ UNCHANGED pc
    /\ UNCHANGED <<branch_infos, found_branches, branches, msg_map, v, sorted_branches,
                   colors, out, diff_calls>>
    /\ UNCHANGED inputs

WalkDone ==
    /\ pc = "walk"
    /\ k > Len(branches)
    /\ pc' = "group"
    /\ k' = 1
    /\ UNCHANGED <<branch_infos, found_branches, branches, mapoid_to_branches, msg_map,
                   v, sorted_branches, colors, out, diff_calls>>
    /\ UNCHANGED inputs

----------------------------------------------------------------------------
(* Change Grouper: lines 413-448 *)

\* the parent count compared with 2 instead of 1
IsMergeOffByOne(c) == Cardinality(c.parents) > 2

\* the three `continue`s of the loop: merges, other authors, stale commits
IsMerge(c) == Cardinality(c.parents) > 1

Qualifies(a, c) ==
    /\ ~IsMerge(c)
    /\ SigMatches(c.author, a.author)
    /\ ~CommitTooOld(a, c.time)

\* the occupied entry overwritten: every commit of a key resets the group's time
PushEntryLatest(mm, msg, when, id) ==
    LET item == IF msg \in DOMAIN mm THEN mm[msg] ELSE [when |-> when, ids |-> <<>>]
    IN  Put(mm, msg, [when |-> when, ids |-> Append(item.ids, id)])

\* the entry the body makes for the first line of the message: a vacant key gets
\* this commit's committer time, an occupied one keeps its own
PushEntry(mm, msg, when, id) ==
    LET item == IF msg \in DOMAIN mm THEN mm[msg] ELSE [when |-> when, ids |-> <<>>]
    IN  Put(mm, msg, [when |-> item.when, ids |-> Append(item.ids, id)])

\* one iteration of `for (id, revs) in &mapoid_to_branches`
GroupStep ==
    /\ pc = "group"
    /\ k <= Cardinality(DOMAIN mapoid_to_branches)
    /\ LET id == SortedOids(DOMAIN mapoid_to_branches)[k]
           c  == commits[id]
       IN  IF ~IsMerge(c) /\ SigMatches(c.author, args.author) /\ ElapsedErr(c.time)
           THEN Abort("panic_elapsed")
           ELSE /\ msg_map' = IF Qualifies(args, c) /\ c.message # <<>>
                              THEN PushEntry(msg_map, Head(c.message), c.time, id)
                              ELSE msg_map
                /\ k' = k + 1
                /\ UNCHANGED <<pc, branch_infos, found_branches, branches,
                               mapoid_to_branches, v, sorted_branches, colors, out,
                               diff_calls>>
    /\ UNCHANGED inputs

\* sort_by is stable: insert x after every element whose time is not later
RECURSIVE InsertByWhen(_, _)
InsertByWhen(x, s) ==
    IF s = <<>> THEN <<x>>
    ELSE IF x.when < Head(s).when THEN <<x>> \o s
    ELSE <<Head(s)>> \o InsertByWhen(x, Tail(s))

RECURSIVE SortByWhen(_)
SortByWhen(s) ==
    IF s = <<>> THEN <<>>
    ELSE InsertByWhen(s[Len(s)], SortByWhen(SubSeq(s, 1, Len(s) - 1)))

\* `for (msg, (when, id_revs)) in msg_map { v.push(..) }` then `v.sort_by(..)`
GroupsOf(mm) ==
    LET keys == SortedStrs(DOMAIN mm) IN
    SortByWhen([i \in 1..Len(keys) |->
                   [when |-> mm[keys[i]].when, msg |-> keys[i], id_revs |-> mm[keys[i]].ids]])

GroupDone ==
    /\ pc = "group"
    /\ k > Cardinality(DOMAIN mapoid_to_branches)
    /\ v' = GroupsOf(msg_map)
    /\ pc' = "order"
    /\ k' = 1
    /\ UNCHANGED <<branch_infos, found_branches, branches, mapoid_to_branches, msg_map,
                   sorted_branches, colors, out, diff_calls>>
    /\ UNCHANGED inputs

----------------------------------------------------------------------------
(* Branch Order and Palette: lines 450-479 *)

\* the union of c_revs over every entry of every group
UnsortedBranches(groups, m) ==
    LET ids == UNION {Range(groups[i].id_revs) : i \in 1..Len(groups)}
    IN  UNION {m[id] : id \in ids}

\* Ord of (Option<(&usize, bool)>, Rc<String>): None before Some, then idx, then
\* the flag (false before true), then the name
BoolLess(x, y) == ~x /\ y

InfoLess(x, y) ==
    IF ~x.some THEN y.some
    ELSE IF ~y.some THEN FALSE
    ELSE \/ x.val.idx < y.val.idx
         \/ x.val.idx = y.val.idx /\ BoolLess(x.val.show_if_empty, y.val.show_if_empty)

KeyLess(x, y) ==
    \/ InfoLess(x.info, y.info)
    \/ x.info = y.info /\ StrLess(x.name, y.name)

RECURSIVE InsertByKey(_, _)
InsertByKey(x, s) ==
    IF s = <<>> THEN <<x>>
    ELSE IF KeyLess(x, Head(s)) THEN <<x>> \o s
    ELSE <<Head(s)>> \o InsertByKey(x, Tail(s))

RECURSIVE SortByKey(_)
SortByKey(s) ==
    IF s = <<>> THEN <<>>
    ELSE InsertByKey(s[Len(s)], SortByKey(SubSeq(s, 1, Len(s) - 1)))

\* the pushes of the first loop: (found_branches.get(name), name) per surfaced name
SurfacedKeys(fb, surfaced) ==
    LET names == SortedStrs(surfaced) IN
    [i \in 1..Len(names) |->
        [info |-> IF names[i] \in DOMAIN fb THEN Some(fb[names[i]]) ELSE None,
         name |-> names[i]]]

\* the pushes of the second loop: (None, name) per found branch with show_if_empty
ShowIfEmptyKeys(fb) ==
    LET names == SortedStrs({n \in DOMAIN fb : fb[n].show_if_empty}) IN
    [i \in 1..Len(names) |-> [info |-> None, name |-> names[i]]]

\* the column list: both pushes, sorted, names kept
BranchColumns(fb, surfaced) ==
    LET sorted == SortByKey(SurfacedKeys(fb, surfaced) \o ShowIfEmptyKeys(fb))
    IN  [i \in 1..Len(sorted) |-> sorted[i].name]

OrderStep ==
    /\ pc = "order"
    /\ sorted_branches' =
           BranchColumns(found_branches, UnsortedBranches(v, mapoid_to_branches))
    /\ pc' = "palette"
    /\ UNCHANGED <<k, branch_infos, found_branches, branches, mapoid_to_branches,
                   msg_map, v, colors, out, diff_calls>>
    /\ UNCHANGED inputs

\* the palette's literals: `let m = 2; let n = 100;` and `255 - n`, all u8
palette_m == 2
palette_n == 100
U8Max == 255

palette_t == U8Max - palette_n

\* u8 arithmetic of a release build: wrapping
WrapU8(x) == x % (U8Max + 1)

\* n + (t * r) / m for one axis value
Channel(r) == WrapU8(palette_n + WrapU8(palette_t * r) \div palette_m)

\* a debug build panics where u8 arithmetic overflows
ChannelOverflows(r) ==
    \/ palette_t * r > U8Max
    \/ palette_n + WrapU8(palette_t * r) \div palette_m > U8Max

PaletteOverflows == \E r \in 0..palette_m : ChannelOverflows(r)

\* the three nested loops, r outermost and b innermost
Palette ==
    LET w == palette_m + 1 IN
    [i \in 1..(w * w * w) |->
        [r |-> Channel((i - 1) \div (w * w)),
         g |-> Channel(((i - 1) \div w) % w),
         b |-> Channel((i - 1) % w)]]

PaletteStep ==
    /\ pc = "palette"
    /\ IF build = "debug" /\ PaletteOverflows
       THEN Abort("panic_overflow")
       ELSE /\ colors' = Palette
            /\ pc' = IF args.reverse THEN "print_branches" ELSE "print_commits"
            /\ k' = 1
            /\ UNCHANGED <<branch_infos, found_branches, branches, mapoid_to_branches,
                           msg_map, v, sorted_branches, out, diff_calls>>
    /\ UNCHANGED inputs

----------------------------------------------------------------------------
(* Printer: lines 86-245 *)

\* colors[i % colors.len()] for the 0-based column i
ColorOf(cs, i) == cs[(i % Len(cs)) + 1]

\* the entries print_commit's loop visits before its `break`
Visited(id_revs, variants) == IF variants THEN id_revs ELSE SubSeq(id_revs, 1, 1)

\* the oids the loop runs the `git show .. | sha1sum` command for
DiffIdCalls(id_revs, variants) == Visited(id_revs, variants)

\* the marks of one row, left to right: `for (i, item) in branches.iter().enumerate()`
Marks(cols, cs, revs) ==
    [i \in 1..Len(cols) |->
        [branch |-> cols[i], color |-> ColorOf(cs, i - 1), x |-> cols[i] \in revs]]

\* the rows print_commit writes for one group
CommitRows(idx, g, m, cols, cs, highlight, variants) ==
    LET contained_in == UNION {m[g.id_revs[j]] : j \in 1..Len(g.id_revs)}
        ids == Visited(g.id_revs, variants)
    IN  IF highlight.some /\ ~Contains(g.msg, highlight.val)
        THEN <<>>
        ELSE [j \in 1..Len(ids) |->
                [kind  |-> "commit",
                 idx   |-> idx,
                 when  |-> g.when,
                 oid   |-> ids[j],
                 marks |-> Marks(cols, cs, IF variants THEN m[ids[j]] ELSE contained_in),
                 diff  |-> variants /\ Len(g.id_revs) > 1,
                 msg   |-> g.msg]]

\* print_commits with its reversed branch iterating forward too
GroupAtForward(groups, reverse, idx) == groups[idx + 1]

\* the group print_commits hands to print_commit at 0-based position idx
GroupAt(groups, reverse, idx) ==
    IF reverse THEN groups[Len(groups) - idx] ELSE groups[idx + 1]

\* one call of print_commit from print_commits
PrintCommitStep ==
    /\ pc = "print_commits"
    /\ k <= Len(v)
    /\ LET g == GroupAt(v, args.reverse, k - 1)
           skipped == args.search.some /\ ~Contains(g.msg, args.search.val)
       IN  /\ out' = out \o CommitRows(k - 1, g, mapoid_to_branches, sorted_branches,
                                       colors, args.search, args.variants)
           /\ diff_calls' = IF skipped THEN diff_calls
                            ELSE diff_calls \o DiffIdCalls(g.id_revs, args.variants)
    /\ k' = k + 1
    /\ UNCHANGED <<pc, branch_infos, found_branches, branches, mapoid_to_branches,
                   msg_map, v, sorted_branches, colors>>
    /\ UNCHANGED inputs

PrintCommitsDone ==
    /\ pc = "print_commits"
    /\ k > Len(v)
    /\ pc' = IF args.reverse THEN "done" ELSE "print_sep"
    /\ k' = 1
    /\ UNCHANGED <<branch_infos, found_branches, branches, mapoid_to_branches, msg_map,
                   v, sorted_branches, colors, out, diff_calls>>
    /\ UNCHANGED inputs

PrintSep ==
    /\ pc = "print_sep"
    /\ out' = Append(out, [kind |-> "sep", width |-> Len(sorted_branches)])
    /\ pc' = IF args.reverse THEN "print_commits" ELSE "print_branches"
    /\ UNCHANGED <<k, branch_infos, found_branches, branches, mapoid_to_branches,
                   msg_map, v, sorted_branches, colors, diff_calls>>
    /\ UNCHANGED inputs

\* print_branch: i bars, then the name, in the column's colour
BranchLine(cols, cs, i) ==
    [kind |-> "branch", i |-> i, name |-> cols[i + 1], color |-> ColorOf(cs, i)]

\* print_branches: ascending i when reversed, descending otherwise
BranchLines(cols, cs, reverse) ==
    [j \in 1..Len(cols) |->
        BranchLine(cols, cs, IF reverse THEN j - 1 ELSE Len(cols) - j)]

PrintBranches ==
    /\ pc = "print_branches"
    /\ out' = out \o BranchLines(sorted_branches, colors, args.reverse)
    /\ pc' = IF args.reverse THEN "print_sep" ELSE "done"
    /\ UNCHANGED <<k, branch_infos, found_branches, branches, mapoid_to_branches,
                   msg_map, v, sorted_branches, colors, diff_calls>>
    /\ UNCHANGED inputs

\* print_commits: print_commit for idx = 0, 1, .. over v or over v.iter().rev()
RECURSIVE PrintCommitsUpTo(_, _, _, _, _, _)
PrintCommitsUpTo(n, groups, m, cols, cs, a) ==
    IF n = 0 THEN <<>>
    ELSE PrintCommitsUpTo(n - 1, groups, m, cols, cs, a)
         \o CommitRows(n - 1, GroupAt(groups, a.reverse, n - 1), m, cols, cs,
                       a.search, a.variants)

PrintCommits(groups, m, cols, cs, a) == PrintCommitsUpTo(Len(groups), groups, m, cols, cs, a)

\* Printer::print: the three sections, in the order the reverse flag selects
PrinterPrint(groups, m, cols, cs, a) ==
    LET sep == <<[kind |-> "sep", width |-> Len(cols)]>> IN
    IF a.reverse
    THEN BranchLines(cols, cs, TRUE) \o sep \o PrintCommits(groups, m, cols, cs, a)
    ELSE PrintCommits(groups, m, cols, cs, a) \o sep \o BranchLines(cols, cs, FALSE)

----------------------------------------------------------------------------

Next ==
    \/ ParseStep \/ ParseDone
    \/ RefStep \/ RefDone
    \/ ScriptStep \/ ScriptDone
    \/ WalkStep \/ WalkDone
    \/ GroupStep \/ GroupDone
    \/ OrderStep
    \/ PaletteStep
    \/ PrintCommitStep \/ PrintCommitsDone
    \/ PrintSep
    \/ PrintBranches

Spec == Init /\ [][Next]_vars

----------------------------------------------------------------------------
(* Positions of main() *)

AbortPcs == {"err_glob", "err_io", "err_utf8", "err_git", "panic_elapsed", "panic_overflow"}
PrintPcs == {"print_commits", "print_sep", "print_branches", "done"}
AfterRefs == pc \in {"scripts", "walk", "group", "order", "palette"} \cup PrintPcs
                    \cup (AbortPcs \ {"err_glob"})
AfterWalk == pc \in {"group", "order", "palette", "panic_overflow"} \cup PrintPcs
AfterGroup == pc \in {"order", "palette", "panic_overflow"} \cup PrintPcs

IsRemote(refname) == Len(refname) >= 2 /\ refname[1] = Origin

MinOf(S) == CHOOSE x \in S : \A y \in S : x <= y

CommitRowsOf(o) == SelectSeq(o, LAMBDA line : line.kind = "commit")
BranchLinesOf(o) == SelectSeq(o, LAMBDA line : line.kind = "branch")

----------------------------------------------------------------------------
(* C3 *)

C3_Pattern(sel) == IF Len(sel) > 0 /\ sel[1] = "!" THEN SubSeq(sel, 2, Len(sel)) ELSE sel
C3_IsGlob(sel) == \A i \in 1..Len(C3_Pattern(sel)) : C3_Pattern(sel)[i] # ":"
C3_Flag(sel) == Len(sel) > 0 /\ sel[1] = "!"

\* input-list positions of the glob selectors matching a short name
C3_Globs(st) ==
    {i \in 1..Len(args.branches) :
        C3_IsGlob(args.branches[i]) /\ GlobMatch(C3_Pattern(args.branches[i]), st)}

\* references the reference loop is through with
C3_Seen == IF pc = "refs" THEN 1..(k - 1) ELSE IF AfterRefs THEN 1..Len(refs) ELSE {}

\* the trigger selectors whose program has been run so far
TriggersRun ==
    {i \in 1..Len(args.branches) :
        /\ refscript
        /\ ~C3_IsGlob(args.branches[i])
        /\ IF pc \in {"scripts", "err_io", "err_utf8", "err_git"} THEN i < k ELSE AfterRefs}

\* names a trigger selector has recorded so far (for a shared name the registry
\* keeps the last writer)
C3_TriggerNames ==
    {script[i].name : i \in
        {i \in TriggersRun :
            script[i].spawn /\ script[i].utf8 /\ script[i].nlines >= 2 /\ script[i].rev \in Oids}}

\* C3: first match wins.  Every remote-tracking reference the reference loop has
\* handled whose short name matches a glob selector is tracked and recorded with
\* the smallest input-list index of a matching glob selector (trigger selectors
\* skipped, their index still counted) and with that selector's `!` flag; a
\* reference matching no glob selector is not tracked.  The registry entry
\* stays so unless a trigger later records the same name.
C3_FirstMatchWins ==
    \A j \in C3_Seen :
        LET st == Tail(refs[j].name)
            M  == C3_Globs(st)
        IN  IsRemote(refs[j].name) =>
              IF M # {}
              THEN /\ \E i \in 1..Len(branches) :
                         branches[i] = [name |-> st, oid |-> refs[j].oid]
                   /\ st \in DOMAIN found_branches
                   /\ \/ found_branches[st] =
                            [idx |-> MinOf(M) - 1,
                             show_if_empty |-> C3_Flag(args.branches[MinOf(M)])]
                      \/ st \in C3_TriggerNames
              ELSE st \notin C3_TriggerNames =>
                       /\ st \notin DOMAIN found_branches
                       /\ \A i \in 1..Len(branches) : branches[i].name # st

\* a reference matched by two glob selectors and recorded with the first of them
C3_Witness ==
    /\ pc = "walk"
    /\ \E j \in 1..Len(refs) :
          LET st == Tail(refs[j].name) IN
          /\ IsRemote(refs[j].name)
          /\ Cardinality(C3_Globs(st)) >= 2
          /\ st \notin C3_TriggerNames
          /\ found_branches[st].idx = MinOf(C3_Globs(st)) - 1

----------------------------------------------------------------------------
(* C5 *)

\* C5: no group holds a merge.  Every commit in an entry of msg_map, of v, or
\* on a printed row has at most one parent.
C5_NoMergeInGroup ==
    /\ \A msg \in DOMAIN msg_map :
          \A i \in 1..Len(msg_map[msg].ids) :
              Cardinality(commits[msg_map[msg].ids[i]].parents) <= 1
    /\ \A g \in 1..Len(v) :
          \A i \in 1..Len(v[g].id_revs) :
              Cardinality(commits[v[g].id_revs[i]].parents) <= 1
    /\ \A i \in 1..Len(out) :
          out[i].kind = "commit" => Cardinality(commits[out[i].oid].parents) <= 1

\* a finished run whose membership map holds a two-parent commit by the
\* filtered author, inside the age window, with a message, and some group printed
C5_Witness ==
    /\ pc = "done"
    /\ Len(CommitRowsOf(out)) >= 1
    /\ \E c \in DOMAIN mapoid_to_branches :
          /\ Cardinality(commits[c].parents) >= 2
          /\ args.author.some /\ Contains(commits[c].author.name, args.author.val)
          /\ Now - commits[c].time <= DaySecs * args.days
          /\ commits[c].message # <<>>

----------------------------------------------------------------------------
(* C8 *)

C8_AuthorOk(c) ==
    args.author.some =>
        \/ Contains(commits[c].author.name, args.author.val)
        \/ Contains(commits[c].author.email, args.author.val)

\* commits the grouper accepts: not a merge, author matches, inside the window,
\* with a first line
C8_Qualifying(c) ==
    /\ Cardinality(commits[c].parents) <= 1
    /\ C8_AuthorOk(c)
    /\ Now - commits[c].time <= DaySecs * args.days
    /\ commits[c].message # <<>>

\* commits of the membership map the grouper's loop is through with
C8_Processed ==
    IF pc = "group"
    THEN {c \in DOMAIN mapoid_to_branches :
             Cardinality({d \in DOMAIN mapoid_to_branches : d <= c}) < k}
    ELSE IF AfterGroup THEN DOMAIN mapoid_to_branches ELSE {}

C8_Members(msg) ==
    {c \in C8_Processed : C8_Qualifying(c) /\ commits[c].message[1] = msg}

\* C8: a group's time is the committer time of the qualifying commit with the
\* smallest CommitId among those of its key, at every point of the run (so no
\* later entry changes it), and the printed groups carry that time in
\* non-decreasing order without the reverse flag and non-increasing order with it.
C8_CanonicalTime ==
    /\ DOMAIN msg_map = {commits[c].message[1] : c \in {c \in C8_Processed : C8_Qualifying(c)}}
    /\ \A msg \in DOMAIN msg_map :
          /\ msg_map[msg].when = commits[MinOf(C8_Members(msg))].time
          /\ msg_map[msg].ids = SortedOids(C8_Members(msg))
    /\ AfterGroup =>
          /\ Len(v) = Cardinality(DOMAIN msg_map)
          /\ \A i \in 1..Len(v) :
                v[i].msg \in DOMAIN msg_map /\ v[i].when = msg_map[v[i].msg].when
    /\ pc = "done" =>
          LET rows == CommitRowsOf(out) IN
          /\ \A i \in 1..Len(rows) : rows[i].when = msg_map[rows[i].msg].when
          /\ ~args.search.some => {rows[i].msg : i \in 1..Len(rows)} = DOMAIN msg_map
          /\ \A i, j \in 1..Len(rows) :
                i < j => IF args.reverse THEN rows[i].when >= rows[j].when
                         ELSE rows[i].when <= rows[j].when

\* a finished reversed run printing two groups of different times, one of them
\* with a time that is not the earliest of its commits
C8_Witness ==
    /\ pc = "done"
    /\ args.reverse
    /\ \E i, j \in 1..Len(out) :
          /\ out[i].kind = "commit" /\ out[j].kind = "commit"
          /\ i < j /\ out[i].when > out[j].when
    /\ \E msg \in DOMAIN msg_map :
          \E c \in C8_Members(msg) : commits[c].time < msg_map[msg].when

----------------------------------------------------------------------------
(* C1, C2 *)

\* names with a surfaced commit, and names recorded with show_if_empty
Surfaced ==
    UNION {mapoid_to_branches[id] : id \in UNION {Range(v[i].id_revs) : i \in 1..Len(v)}}
ShownIfEmpty == {n \in DOMAIN found_branches : found_branches[n].show_if_empty}

\* C1: the column list is the set of candidate names (surfaced names and
\* show-if-empty names), each name in exactly one column.
C1_ColumnsAreCandidates ==
    pc = "done" =>
        /\ Range(sorted_branches) = Surfaced \cup ShownIfEmpty
        /\ Len(sorted_branches) = Cardinality(Surfaced \cup ShownIfEmpty)

\* (priority, name) ascending, a name without a known selector after all others
C2_Known(n) == n \in DOMAIN found_branches
C2_Before(x, y) ==
    IF C2_Known(x) /\ C2_Known(y)
    THEN \/ found_branches[x].idx < found_branches[y].idx
         \/ found_branches[x].idx = found_branches[y].idx /\ (x = y \/ StrLess(x, y))
    ELSE IF C2_Known(x) THEN TRUE
    ELSE IF C2_Known(y) THEN FALSE
    ELSE x = y \/ StrLess(x, y)

\* C2: the columns are in ascending (priority, name) order, whatever the
\* show_if_empty flags.
C2_ColumnsByPriorityThenName ==
    pc = "done" =>
        \A i, j \in 1..Len(sorted_branches) :
            i < j => C2_Before(sorted_branches[i], sorted_branches[j])

----------------------------------------------------------------------------
(* C4 *)

C4_Stale(i) == Now - commits[branches[i].oid].time > DaySecs * args.days

C4_Absent(name) ==
    /\ \A c \in DOMAIN mapoid_to_branches : name \notin mapoid_to_branches[c]
    /\ (pc = "done" /\ name \in Range(sorted_branches)) => found_branches[name].show_if_empty

\* C4 as stated: once the membership loop is over, the name of a tracked branch
\* with a head older than the cutoff is in no membership set, and is a column
\* only if its show_if_empty flag is set.
C4_StaleHeadNameAbsent ==
    AfterWalk => \A i \in 1..Len(branches) : C4_Stale(i) => C4_Absent(branches[i].name)

\* C4 amended: the same, for a name none of whose tracked branches has a head
\* inside the cutoff.
C4_StaleHeadSkipped ==
    AfterWalk =>
        \A i \in 1..Len(branches) :
            (\A j \in 1..Len(branches) : branches[j].name = branches[i].name => C4_Stale(j))
                => C4_Absent(branches[i].name)

\* a finished run with a stale-headed, uniquely named branch shown as a column,
\* and another stale-headed, uniquely named branch that is not shown
C4_Witness ==
    /\ pc = "done"
    /\ \E i, i2 \in 1..Len(branches) :
          /\ C4_Stale(i) /\ C4_Stale(i2)
          /\ \A j \in 1..Len(branches) : j # i => branches[j].name # branches[i].name
          /\ \A j \in 1..Len(branches) : j # i2 => branches[j].name # branches[i2].name
          /\ branches[i].name \in Range(sorted_branches)
          /\ branches[i2].name \notin Range(sorted_branches)
    /\ Len(CommitRowsOf(out)) >= 1

----------------------------------------------------------------------------
(* C6 *)

RECURSIVE Collapse(_)
Collapse(s) ==
    IF Len(s) <= 1 THEN s
    ELSE IF s[1] = s[2] THEN Collapse(Tail(s))
    ELSE <<s[1]>> \o Collapse(Tail(s))

\* the printed groups, in order: the first lines of the commit rows, one per group
C6_GroupSeq(o) == Collapse([i \in 1..Len(CommitRowsOf(o)) |-> CommitRowsOf(o)[i].msg])
C6_Columns(row) == [i \in 1..Len(row.marks) |-> row.marks[i].branch]
C6_Legend(o) == [i \in 1..Len(BranchLinesOf(o)) |-> BranchLinesOf(o)[i].name]
C6_Sections(o) == Collapse([i \in 1..Len(o) |-> o[i].kind])

\* what the same groups and branches print under the opposite flag
C6_Flipped ==
    PrinterPrint(v, mapoid_to_branches, sorted_branches, colors,
          [args EXCEPT !.reverse = ~args.reverse])

C6_SameRow(r1, r2) == r1.kind = "commit" /\ r2.kind = "commit" /\ r1.msg = r2.msg /\ r1.oid = r2.oid

----------------------------------------------------------------------------
(* C7 *)

C7_Failed(o) == ~o.spawn \/ o.status # 0 \/ ~o.utf8

\* C7: a trigger whose program failed to spawn, exited non-zero or wrote
\* non-UTF8 output aborts the run: the run never gets past such a trigger, and
\* an aborted run has printed nothing.
C7_TriggerFailureIsFatal ==
    /\ \A i \in TriggersRun : ~C7_Failed(script[i])
    /\ pc \in AbortPcs => out = <<>>

----------------------------------------------------------------------------
(* C9 *)

\* C9: the fingerprint command runs only in variant mode for commits of a group
\* with more than one entry, and at most once per commit.
C9_FingerprintOnlyWhenShown ==
    /\ \A j \in 1..Len(diff_calls) :
          /\ args.variants
          /\ \E g \in 1..Len(v) :
                diff_calls[j] \in Range(v[g].id_revs) /\ Len(v[g].id_revs) > 1
    /\ \A i, j \in 1..Len(diff_calls) : i # j => diff_calls[i] # diff_calls[j]

----------------------------------------------------------------------------
(* C10 *)

\* C10: the palette is the 27 colours of the 3x3x3 grid, r outermost, each
\* channel 100 + (155 * k) / 2, the u8 computation never overflows, and column
\* i is painted palette[i mod 27].
C10_PaletteInterpolates ==
    /\ pc # "panic_overflow"
    /\ colors # <<>> =>
          /\ Len(colors) = 27
          /\ \A r \in 0..2, g \in 0..2, b \in 0..2 :
                colors[9 * r + 3 * g + b + 1] =
                    [r |-> 100 + (155 * r) \div 2, g |-> 100 + (155 * g) \div 2,
                     b |-> 100 + (155 * b) \div 2]
    /\ \A i \in 1..Len(out) :
          out[i].kind = "commit" =>
              \A c \in 1..Len(out[i].marks) :
                  out[i].marks[c].color = colors[((c - 1) % 27) + 1]

====
